---- MODULE Spec2Model ----
(***************************************************************************)
(* The polymer-tracking engine of pysinthe/polymer.py (class Polymer) as a *)
(* state machine.  One action per public call of the driver                *)
(* (bind_polymerase, execute, shift_mask); every helper the call runs is   *)
(* an operator over an engine record, so an action is the whole call.      *)
(* The element / polymerase / mask data model (pysinthe/feature.py), the   *)
(* notification primitive (pysinthe/eventsignal.py) and the weighted       *)
(* choice (pysinthe/choices.py) follow spec.md sections 3, 4.1 and 4.2.    *)
(* Element sequences are indexed from 1 here (Python: from 0).             *)
(***************************************************************************)
EXTENDS Integers, Sequences, FiniteSets, TLC

\* Number of polymerase objects the driver creates (each is bound at most once).
NumPols == 3
\* Stop coordinate of the small polymers (their start is 1).
PolymerStop == 10

-----------------------------------------------------------------------------
(* Data model: elements, masks, polymerase templates                        *)

Promoter(name, start, stop, interactions) ==
    [name |-> name, type |-> "promoter", start |-> start, stop |-> stop,
     interactions |-> interactions,
     efficiency |-> [sp \in interactions |-> 100], gene |-> ""]

\* efficiency: species -> termination efficiency in percent (1.0 is 100)
Terminator(name, start, stop, efficiency) ==
    [name |-> name, type |-> "terminator", start |-> start, stop |-> stop,
     interactions |-> DOMAIN efficiency,
     efficiency |-> efficiency, gene |-> name]

Mask(start, stop, interactions) ==
    [name |-> "mask", type |-> "mask", start |-> start, stop |-> stop,
     interactions |-> interactions]

Polymerase(name, footprint, speed) ==
    [name |-> name, footprint |-> footprint, speed |-> speed]

\* Small polymer, element intervals fixed, promoters and terminator under a
\* receding mask that ecolipol pushes and rnapol waits for.
MaskedLayout ==
    [start |-> 1, stop |-> PolymerStop,
     elements |-> << Promoter("p1", 1, 3, {"ecolipol", "rnapol"}),
                     Promoter("p2", 5, 8, {"ecolipol", "rnapol"}),
                     Terminator("t1", 9, 10,
                                [sp \in {"ecolipol", "rnapol"} |->
                                    IF sp = "rnapol" THEN 100 ELSE 60]) >>,
     mask |-> Mask(2, PolymerStop, {"ecolipol"}),
     pool |-> << Polymerase("ecolipol", 3, 3), Polymerase("rnapol", 3, 1) >>]

\* Small polymer whose mask lies beyond its end (nothing is masked).
OpenLayout ==
    [start |-> 1, stop |-> PolymerStop,
     elements |-> << Promoter("p1", 1, 3, {"ecolipol", "rnapol"}),
                     Terminator("t1", 6, 7,
                                [sp \in {"ecolipol", "rnapol"} |->
                                    IF sp = "rnapol" THEN 100 ELSE 60]) >>,
     mask |-> Mask(PolymerStop + 1, PolymerStop + 1, {}),
     pool |-> << Polymerase("rnapol", 2, 1), Polymerase("ecolipol", 3, 3) >>]

\* Small polymer whose mask ends before the polymer does.
ShortMaskLayout ==
    [start |-> 1, stop |-> PolymerStop,
     elements |-> << Promoter("p1", 1, 3, {"ecolipol", "rnapol"}),
                     Promoter("p2", 5, 6, {"ecolipol", "rnapol"}),
                     Terminator("t1", 8, 9,
                                [sp \in {"ecolipol"} |-> 60]) >>,
     mask |-> Mask(5, 6, {"ecolipol"}),
     pool |-> << Polymerase("ecolipol", 2, 3), Polymerase("rnapol", 2, 1),
                 Polymerase("ecolipol", 3, 3) >>]

\* The fixture of tests/test_polymer.py (setUp).  The driver's polymerases
\* here are ecolipol of weight 30: one of footprint 11, the others of
\* footprint 21.
TestLayout ==
    [start |-> 1, stop |-> 100,
     elements |-> << Promoter("promoter1", 5, 15, {"ecolipol", "rnapol"}),
                     Terminator("myterm", 50, 55,
                                [sp \in {"ecolipol", "rnapol"} |->
                                    IF sp = "rnapol" THEN 100 ELSE 60]) >>,
     mask |-> Mask(10, 100, {"ecolipol"}),
     pool |-> << Polymerase("ecolipol", 21, 30), Polymerase("ecolipol", 11, 30),
                 Polymerase("ecolipol", 21, 30), Polymerase("ecolipol", 21, 30) >>]

\* Small polymer with one promoter, no terminator and nothing masked.
BareLayout ==
    [start |-> 1, stop |-> PolymerStop,
     elements |-> << Promoter("p1", 1, 2, {"ecolipol", "rnapol"}) >>,
     mask |-> Mask(PolymerStop + 1, PolymerStop + 1, {}),
     pool |-> << Polymerase("rnapol", 2, 1), Polymerase("ecolipol", 2, 3) >>]

\* An entry of a Genome's transcript_template (rbs: offset of the
\* ribosome-binding site from the gene's start).
Gene(name, start, stop, rbs) ==
    [name |-> name, start |-> start, stop |-> stop, rbs |-> rbs]

\* Genome._build_transcript, lines 477-487: the two elements of one gene.
GeneElements(element) ==
    << Promoter("rbs", element.start + element.rbs, element.start,
                {"ribosome"}),
       [Terminator("tstop", element.stop - 1, element.stop,
                   [sp \in {"ribosome"} |-> 100])
          EXCEPT !.gene = element.name] >>

\* Genome._build_transcript, lines 475-489: the elements of the genes that
\* lie within [start, stop].
RECURSIVE TranscriptElements(_, _, _)
TranscriptElements(transcript_template, start, stop) ==
    IF transcript_template = << >> THEN << >>
    ELSE (IF /\ Head(transcript_template).start >= start
             /\ Head(transcript_template).stop <= stop
          THEN GeneElements(Head(transcript_template)) ELSE << >>)
         \o TranscriptElements(Tail(transcript_template), start, stop)

TwoGenes == << Gene("geneA", 3, 6, -2), Gene("geneB", 8, 10, -1) >>

\* A Genome: the geometry of ShortMaskLayout with a transcript template.
GenomeLayout ==
    [kind |-> "genome", start |-> 1, stop |-> PolymerStop,
     elements |-> << Promoter("p1", 1, 3, {"ecolipol", "rnapol"}),
                     Promoter("p2", 5, 6, {"ecolipol", "rnapol"}),
                     Terminator("t1", 8, 9,
                                [sp \in {"ecolipol"} |-> 60]) >>,
     mask |-> Mask(5, 6, {"ecolipol"}),
     transcript_template |-> TwoGenes,
     pool |-> << Polymerase("ecolipol", 2, 3), Polymerase("rnapol", 2, 1),
                 Polymerase("ecolipol", 3, 3) >>]

\* A Transcript as Genome._build_transcript makes it for a polymerase bound
\* at coordinate 1, with ribosomes as its polymerases.  release: the
\* coordinates at which the transcribing polymerase can be released.
TranscriptLayout ==
    [kind |-> "transcript", start |-> 1, stop |-> PolymerStop,
     elements |-> TranscriptElements(TwoGenes, 1, PolymerStop),
     mask |-> Mask(1, PolymerStop, {}),
     release |-> {6, PolymerStop},
     pool |-> << Polymerase("ribosome", 2, 1) >>]

OneGene == << Gene("geneA", 3, 6, -2) >>

\* A Genome whose second promoter lies behind the start of its only gene;
\* no mask on the polymer.
OneGeneLayout ==
    [kind |-> "genome", start |-> 1, stop |-> PolymerStop,
     elements |-> << Promoter("p1", 1, 3, {"ecolipol", "rnapol"}),
                     Promoter("p2", 5, 6, {"ecolipol", "rnapol"}),
                     Terminator("t1", 8, 9,
                                [sp \in {"ecolipol"} |-> 60]) >>,
     mask |-> Mask(PolymerStop + 1, PolymerStop + 1, {}),
     transcript_template |-> OneGene,
     pool |-> << Polymerase("ecolipol", 2, 3), Polymerase("rnapol", 2, 1) >>]

Layouts == << MaskedLayout, OpenLayout, ShortMaskLayout, BareLayout,
              GenomeLayout, TranscriptLayout, TestLayout, OneGeneLayout >>
SmallLayouts == {1, 2, 3, 4, 5, 6, 8}
TestLayoutIndex == {7}

\* Outcomes of random.random(), in percent of the unit interval [0, 1).
Draws == {30, 90}

VARIABLES
    lay,            \* which layout the engine was constructed with
    covered,        \* element index -> element._covered
    old_covered,    \* element index -> element._old_covered
    readthrough,    \* element index -> terminator.readthrough
    mask_start,     \* self.mask.start
    uncovered,      \* self.uncovered: element name -> free count
    pols,           \* polymerase id -> [start, stop, left_most_element]
    polymerases,    \* self.polymerases: sequence of polymerase ids
    prop_list,      \* self.prop_list
    prop_sum,       \* self.prop_sum
    spent,          \* polymerase objects the driver has already bound
    events,         \* notifications fired during the last call, in order
    last,           \* the last call: [op, pol, name, raised, moved]
    transcripts,    \* Genome: polymerase id -> the Transcript built at its binding
    upstream        \* Transcript: is its transcribing polymerase released?

vars == << lay, covered, old_covered, readthrough, mask_start, uncovered,
           pols, polymerases, prop_list, prop_sum, spent, events, last,
           transcripts, upstream >>

\* The class of the engine: Polymer, Genome or Transcript.
Kind == IF "kind" \in DOMAIN Layouts[lay] THEN Layouts[lay].kind ELSE "polymer"

Elements == Layouts[lay].elements
NE == Len(Elements)
ElementNames == {Elements[i].name : i \in 1..NE}
\* bind_polymerase is called with "the name of a promoter"
PromoterNames == {Elements[i].name : i \in {j \in 1..NE : Elements[j].type = "promoter"}}
TheMask == Layouts[lay].mask
PolIds == 1..NumPols
Pol(p) == LET pool == Layouts[lay].pool IN pool[((p - 1) % Len(pool)) + 1]

Min(S) == CHOOSE x \in S : \A y \in S : x <= y

RECURSIVE Sum(_)
Sum(seq) == IF seq = << >> THEN 0 ELSE Head(seq) + Sum(Tail(seq))

\* Python list.index
IndexOf(seq, x) == Min({i \in 1..Len(seq) : seq[i] = x})
\* Python del list[index]
Delete(seq, i) == SubSeq(seq, 1, i - 1) \o SubSeq(seq, i + 1, Len(seq))
\* Python list.insert(i, x), i counted from 1
Insert(seq, i, x) ==
    LET k == IF i > Len(seq) + 1 THEN Len(seq) + 1 ELSE i
    IN SubSeq(seq, 1, k - 1) \o << x >> \o SubSeq(seq, k, Len(seq))

-----------------------------------------------------------------------------
(* The engine as a record, so that nested calls compose                     *)

Engine ==
    [covered |-> covered, old_covered |-> old_covered,
     readthrough |-> readthrough, mask_start |-> mask_start,
     uncovered |-> uncovered, pols |-> pols, polymerases |-> polymerases,
     prop_list |-> prop_list, prop_sum |-> prop_sum,
     transcripts |-> transcripts,
     events |-> << >>, raised |-> "", moved |-> FALSE]

MaskOf(s) == [start |-> s.mask_start, stop |-> TheMask.stop]

Raise(s, what) == IF s.raised = "" THEN [s EXCEPT !.raised = what] ELSE s

\* Signal.fire: the handlers run synchronously; the record keeps what a
\* handler can observe of the engine at that moment (pol: the polymerase
\* the engine is handling, 0 for none).  "call:terminate" is not a signal:
\* it records a call of terminate with its arguments.
Fire(s, sig, p, arg, gene) ==
    [s EXCEPT !.events = Append(@, [sig |-> sig, pol |-> p, arg |-> arg,
                                    gene |-> gene,
                                    prop_sum |-> s.prop_sum,
                                    list_sum |-> Sum(s.prop_list),
                                    tracked |-> Len(s.polymerases)])]

elements_intersect(element1, element2) ==
    element1.stop >= element2.start /\ element2.stop >= element1.start

cover_element(s, i) ==
    [s EXCEPT !.uncovered[Elements[i].name] = @ - 1]

uncover_element(s, i) ==
    [s EXCEPT !.uncovered[Elements[i].name] = @ + 1]

cover(s, i) == [s EXCEPT !.covered[i] = TRUE]

uncover(s, i) == [s EXCEPT !.covered[i] = FALSE]

save_state(s, i) == [s EXCEPT !.old_covered[i] = s.covered[i]]

check_state(s, i) ==
    IF s.covered[i] /\ ~s.old_covered[i]
    THEN cover_element(Fire(s, "covered", 0, i, ""), i)
    ELSE IF ~s.covered[i] /\ s.old_covered[i]
    THEN uncover_element(Fire(s, "uncovered", 0, i, ""), i)
    ELSE s

recede(s) == [s EXCEPT !.mask_start = @ + 1]

check_interaction(feature, name) == name \in feature.interactions

\* Variant of shift_mask whose guard lets an exhausted mask recede once more.
shift_mask_past_stop(s) ==
    IF s.mask_start > TheMask.stop THEN s
    ELSE LET hits == {i \in 1..NE : elements_intersect(MaskOf(s), Elements[i])}
             index == IF hits = {} THEN 0 ELSE Min(hits)
             s1 == IF index = 0 THEN s ELSE uncover(save_state(s, index), index)
             s2 == recede(s1)
         IN IF index = 0 THEN s2
            ELSE LET s3 == IF elements_intersect(MaskOf(s2), Elements[index])
                           THEN cover(s2, index) ELSE s2
                 IN save_state(check_state(s3, index), index)

shift_mask(s) ==
    IF s.mask_start >= TheMask.stop THEN s
    ELSE LET hits == {i \in 1..NE : elements_intersect(MaskOf(s), Elements[i])}
             index == IF hits = {} THEN 0 ELSE Min(hits)
             s1 == IF index = 0 THEN s ELSE uncover(save_state(s, index), index)
             s2 == recede(s1)
         IN IF index = 0 THEN s2
            ELSE LET s3 == IF elements_intersect(MaskOf(s2), Elements[index])
                           THEN cover(s2, index) ELSE s2
                 IN save_state(check_state(s3, index), index)

-----------------------------------------------------------------------------
(* Construction: Polymer.__init__                                           *)

InitCovered(l) ==
    [i \in 1..Len(Layouts[l].elements) |->
        elements_intersect(Layouts[l].elements[i], Layouts[l].mask)]

InitUncovered(l) ==
    LET es == Layouts[l].elements
    IN [n \in {es[i].name : i \in 1..Len(es)} |->
          Cardinality({i \in 1..Len(es) :
              es[i].name = n /\ ~elements_intersect(es[i], Layouts[l].mask)})]

NoCall == [op |-> "init", pol |-> 0, name |-> "", raised |-> "", moved |-> FALSE]

\* No Transcript has been built for the polymerase.
NoTranscript ==
    [built |-> FALSE, origin |-> 0, mask_start |-> 0, mask_stop |-> 0,
     covered |-> << >>, old_covered |-> << >>, uncovered |-> << >>,
     released |-> 0]

InitWith(ls) ==
    /\ lay \in ls
    /\ covered = InitCovered(lay)
    /\ old_covered = InitCovered(lay)
    /\ readthrough = [i \in 1..Len(Layouts[lay].elements) |-> FALSE]
    /\ mask_start = Layouts[lay].mask.start
    /\ uncovered = InitUncovered(lay)
    /\ pols = [p \in PolIds |-> [start |-> 0, stop |-> 0, left_most_element |-> 1]]
    /\ polymerases = << >>
    /\ prop_list = << >>
    /\ prop_sum = 0
    /\ spent = {}
    /\ events = << >>
    /\ last = NoCall
    /\ transcripts = [p \in PolIds |-> NoTranscript]
    /\ upstream = "transcribing"

Init == InitWith(SmallLayouts)

\* An error out of _move_polymerase is fatal: the driver stops.
Halted == last.op = "execute" /\ last.raised \notin {"", "zero propensity"}

Commit(s, op, p, name) ==
    /\ covered' = s.covered
    /\ old_covered' = s.old_covered
    /\ readthrough' = s.readthrough
    /\ mask_start' = s.mask_start
    /\ uncovered' = s.uncovered
    /\ pols' = s.pols
    /\ polymerases' = s.polymerases
    /\ prop_list' = s.prop_list
    /\ prop_sum' = s.prop_sum
    /\ events' = s.events
    /\ last' = [op |-> op, pol |-> p, name |-> name, raised |-> s.raised,
                moved |-> s.moved]
    /\ transcripts' = s.transcripts
    /\ lay' = lay

-----------------------------------------------------------------------------
(* Polymerase objects: feature.Polymerase.move / move_back                  *)

move(s, p) ==
    [s EXCEPT !.pols[p].start = @ + 1, !.pols[p].stop = @ + 1]

move_back(s, p) ==
    [s EXCEPT !.pols[p].start = @ - 1, !.pols[p].stop = @ - 1]

Tracked(s, p) == \E k \in 1..Len(s.polymerases) : s.polymerases[k] = p

-----------------------------------------------------------------------------
(* Binding                                                                  *)

\* Variant of _insert_polymerase that appends the weight instead of
\* inserting it at the polymerase's index.
_insert_polymerase_appends_weight(s, p) ==
    IF Tracked(s, p) THEN Raise(s, "already present")
    ELSE LET n == Len(s.polymerases)
             ahead == {k \in 1..n :
                          s.pols[p].start < s.pols[s.polymerases[k]].start}
             insert_position == IF ahead # {} THEN Min(ahead) - 1
                                ELSE IF n = 0 THEN 1 ELSE n
         IN [s EXCEPT
               !.polymerases = Insert(@, insert_position + 1, p),
               !.prop_list = Append(@, Pol(p).speed)]

_insert_polymerase(s, p) ==
    IF Tracked(s, p) THEN Raise(s, "already present")
    ELSE LET n == Len(s.polymerases)
             ahead == {k \in 1..n :
                          s.pols[p].start < s.pols[s.polymerases[k]].start}
             \* insert_position of the code, counted from 0
             insert_position == IF ahead # {} THEN Min(ahead) - 1
                                ELSE IF n = 0 THEN 1 ELSE n
         IN [s EXCEPT
               !.polymerases = Insert(@, insert_position + 1, p),
               !.prop_list = Insert(@, insert_position + 1, Pol(p).speed)]

\* Variant of line 102 without the "- 1".
BoundStop_plus_footprint(element_start, footprint) == element_start + footprint

\* Line 102: the stop of a polymerase bound at element_start.
BoundStop(element_start, footprint) == element_start + footprint - 1

\* Line 110: the binding is refused when the new stop passes the mask start.
MaskBlocksBinding(stop, mstart) == stop > mstart

\* e: the element weighted_choice picked among the free elements called
\* promoter (0 when there is none).
bind_polymerase(s, p, promoter, e) ==
    IF e = 0 THEN Raise(s, "no free promoter")
    ELSE IF ~check_interaction(Elements[e], Pol(p).name)
    THEN Raise(s, "no interaction")
    ELSE
      LET s1 == [s EXCEPT !.pols[p] =
                    [start |-> Elements[e].start,
                     stop |-> BoundStop(Elements[e].start, Pol(p).footprint),
                     left_most_element |-> e]]
      IN IF Elements[e].stop < s1.pols[p].stop
         THEN Raise(s1, "footprint larger than promoter")
         ELSE IF MaskBlocksBinding(s1.pols[p].stop, s1.mask_start)
         THEN Raise(s1, "overlap with mask")
         ELSE
           LET s2 == save_state(cover(s1, e), e)
               s3 == [s2 EXCEPT !.uncovered[Elements[e].name] = @ - 1]
           IN IF ~(s3.uncovered[Elements[e].name] > -1)
              THEN Raise(s3, "AssertionError")
              ELSE
                LET s4 == _insert_polymerase(s3, p)
                IN IF s4.raised # "" THEN s4
                   ELSE Fire([s4 EXCEPT !.prop_sum = @ + Pol(p).speed],
                             "propensity", p, 0, "")

-----------------------------------------------------------------------------
(* Genome: the Transcript built for a bound polymerase                      *)

Template == Layouts[lay].transcript_template

\* Variant of NewTranscript whose mask is the single position stop.
NewTranscript_masked_at_stop(start, stop) ==
    LET es == TranscriptElements(Template, start, stop)
        mask == [start |-> stop, stop |-> stop]
        under == [i \in 1..Len(es) |-> elements_intersect(es[i], mask)]
    IN [built |-> TRUE, origin |-> start, mask_start |-> mask.start,
        mask_stop |-> mask.stop,
        covered |-> under, old_covered |-> under,
        uncovered |-> [n \in {es[i].name : i \in 1..Len(es)} |->
                         Cardinality({i \in 1..Len(es) :
                                         es[i].name = n /\ ~under[i]})],
        released |-> 0]

\* Polymer.__init__ (lines 40-66) for the Transcript that _build_transcript
\* makes at lines 495-500: elements of the genes within [start, stop], mask
\* [start, stop] without pass-through species.
NewTranscript(start, stop) ==
    LET es == TranscriptElements(Template, start, stop)
        mask == [start |-> start, stop |-> stop]
        under == [i \in 1..Len(es) |-> elements_intersect(es[i], mask)]
    IN [built |-> TRUE, origin |-> start, mask_start |-> mask.start,
        mask_stop |-> mask.stop,
        covered |-> under, old_covered |-> under,
        uncovered |-> [n \in {es[i].name : i \in 1..Len(es)} |->
                         Cardinality({i \in 1..Len(es) :
                                         es[i].name = n /\ ~under[i]})],
        released |-> 0]

\* shift_mask (lines 142-168) run by the Transcript tr, which carries no
\* ribosome here: the element at the mask's edge is saved and uncovered, the
\* mask recedes, the element is covered again if still masked, and
\* check_state / save_state count the edge.
Transcript_shift_mask(tr) ==
    IF tr.mask_start >= tr.mask_stop THEN tr
    ELSE LET es == TranscriptElements(Template, tr.origin, Layouts[lay].stop)
             hits == {i \in 1..Len(es) :
                        elements_intersect([start |-> tr.mask_start,
                                            stop |-> tr.mask_stop], es[i])}
             index == IF hits = {} THEN 0 ELSE Min(hits)
         IN IF index = 0 THEN [tr EXCEPT !.mask_start = @ + 1]
            ELSE LET saved == tr.covered[index]
                     now == elements_intersect(
                                [start |-> tr.mask_start + 1,
                                 stop |-> tr.mask_stop], es[index])
                 IN [tr EXCEPT
                       !.mask_start = @ + 1,
                       !.covered[index] = now,
                       !.old_covered[index] = now,
                       !.uncovered[es[index].name] =
                           IF now /\ ~saved THEN @ - 1
                           ELSE IF ~now /\ saved THEN @ + 1 ELSE @]

\* Transcript.release (lines 522-531) run by the Transcript tr.
Transcript_release(tr, stop) ==
    [tr EXCEPT !.mask_start = @ + (stop - @), !.released = @ + 1]

\* Line 448: the handler connected to the polymerase's move_signal.
OnMoved(s, p) ==
    IF Kind = "genome" /\ s.transcripts[p].built
    THEN [s EXCEPT !.transcripts[p] = Transcript_shift_mask(@)]
    ELSE s

\* Line 449: the handler connected to the polymerase's release_signal.
OnRelease(s, p, stop) ==
    IF Kind = "genome" /\ s.transcripts[p].built
    THEN [s EXCEPT !.transcripts[p] = Transcript_release(@, stop)]
    ELSE s

\* pol.move_signal.fire() (line 279)
move_signal_fire(s, p) == OnMoved(Fire(s, "moved", p, 0, ""), p)

\* pol.release_signal.fire(element_stop) (lines 172, 455, 515)
release_signal_fire(s, p, element_stop) ==
    OnRelease(Fire(s, "release", p, element_stop, ""), p, element_stop)

\* self.termination_signal.fire(...): Genome line 457 (polymerase name),
\* Transcript line 517 (polymerase name and gene); Polymer.terminate has no
\* such line.
termination_signal_fire(s, p, element_gene) ==
    IF Kind = "genome" THEN Fire(s, "terminated", p, 0, "")
    ELSE IF Kind = "transcript" THEN Fire(s, "terminated", p, 0, element_gene)
    ELSE s

\* Genome._build_transcript and lines 445-451 of Genome.bind_polymerase.
_build_transcript(s, p) ==
    IF TranscriptElements(Template, s.pols[p].start, Layouts[lay].stop) = << >>
    THEN Raise(s, "no elements")
    ELSE Fire([s EXCEPT !.transcripts[p] =
                  NewTranscript(s.pols[p].start, Layouts[lay].stop)],
              "transcript", p, 0, "")

\* Genome.bind_polymerase after super().bind_polymerase returned b.
AfterBind(b, p) == IF b.raised # "" THEN b ELSE _build_transcript(b, p)

Genome_bind_polymerase(s, p, promoter, e) ==
    AfterBind(bind_polymerase(s, p, promoter, e), p)

\* Transcript.release (lines 522-531) on the engine itself.
release(s, stop) == [s EXCEPT !.mask_start = @ + (stop - @)]

-----------------------------------------------------------------------------
(* Termination                                                              *)

\* Variant of terminate that leaves the weight in prop_list.
terminate_keeps_weight(s, p, element_stop, element_gene) ==
    LET s1 == [s EXCEPT !.prop_sum = @ - Pol(p).speed]
        s2 == release_signal_fire(
                  Fire(s1, "call:terminate", p, element_stop, element_gene),
                  p, element_stop)
    IN IF ~Tracked(s2, p) THEN Raise(s2, "ValueError")
       ELSE LET index == IndexOf(s2.polymerases, p)
                s3 == Fire(termination_signal_fire(s2, p, element_gene),
                           "propensity", p, 0, "")
            IN [s3 EXCEPT !.polymerases = Delete(@, index)]

terminate(s, p, element_stop, element_gene) ==
    LET s1 == [s EXCEPT !.prop_sum = @ - Pol(p).speed]
        s2 == release_signal_fire(
                  Fire(s1, "call:terminate", p, element_stop, element_gene),
                  p, element_stop)
    IN IF ~Tracked(s2, p) THEN Raise(s2, "ValueError")
       ELSE LET index == IndexOf(s2.polymerases, p)
                s3 == Fire(termination_signal_fire(s2, p, element_gene),
                           "propensity", p, 0, "")
            IN [s3 EXCEPT !.polymerases = Delete(@, index),
                          !.prop_list = Delete(@, index)]

\* Line 314: random.random() drawn for polymerase p at terminator i.  Not a
\* signal: "roll" records the draw (arg) and the terminator's name (gene).
Drawn(s, p, i, random_num) == Fire(s, "roll", p, random_num, Elements[i].name)

\* random_num <= efficiency, both in percent
RollTerminates(random_num, efficiency) == random_num <= efficiency

\* Variant of _resolve_termination without the element.uncover() of line 316.
_resolve_termination_keeps_cover(s, p, i, random_num) ==
    IF Elements[i].type # "terminator" THEN s
    ELSE IF ~check_interaction(Elements[i], Pol(p).name) THEN s
    ELSE IF s.readthrough[i] THEN s
    ELSE IF RollTerminates(random_num, Elements[i].efficiency[Pol(p).name])
    THEN terminate(Drawn(s, p, i, random_num), p,
                   Elements[i].stop, Elements[i].gene)
    ELSE [Drawn(s, p, i, random_num) EXCEPT !.readthrough[i] = TRUE]

\* Variant of _resolve_termination without the readthrough test.
_resolve_termination_ignores_readthrough(s, p, i, random_num) ==
    IF Elements[i].type # "terminator" THEN s
    ELSE IF ~check_interaction(Elements[i], Pol(p).name) THEN s
    ELSE IF RollTerminates(random_num, Elements[i].efficiency[Pol(p).name])
    THEN terminate(uncover(Drawn(s, p, i, random_num), i), p,
                   Elements[i].stop, Elements[i].gene)
    ELSE [Drawn(s, p, i, random_num) EXCEPT !.readthrough[i] = TRUE]

_resolve_termination(s, p, i, random_num) ==
    IF Elements[i].type # "terminator" THEN s
    ELSE IF ~check_interaction(Elements[i], Pol(p).name) THEN s
    ELSE IF s.readthrough[i] THEN s
    ELSE IF RollTerminates(random_num, Elements[i].efficiency[Pol(p).name])
    THEN terminate(uncover(Drawn(s, p, i, random_num), i), p,
                   Elements[i].stop, Elements[i].gene)
    ELSE [Drawn(s, p, i, random_num) EXCEPT !.readthrough[i] = TRUE]

-----------------------------------------------------------------------------
(* Collisions                                                               *)

\* Result of a _resolve_* call: the engine and the returned flag.
Ret(s, flag) == [s |-> s, ret |-> flag]

\* Variant of _resolve_mask_collisions that flags the collision of a
\* polymerase that may not pass but does not put it back.
_resolve_mask_collisions_no_move_back(s, p) ==
    IF s.raised # "" THEN Ret(s, FALSE)
    ELSE IF s.mask_start > Layouts[lay].stop THEN Ret(s, FALSE)
    ELSE IF elements_intersect(s.pols[p], MaskOf(s))
    THEN IF s.pols[p].stop - s.mask_start > 1
         THEN Ret(Raise(s, "overlapping mask"), FALSE)
         ELSE IF check_interaction(TheMask, Pol(p).name)
         THEN Ret(shift_mask(s), FALSE)
         ELSE Ret(s, TRUE)
    ELSE Ret(s, FALSE)

_resolve_mask_collisions(s, p) ==
    IF s.raised # "" THEN Ret(s, FALSE)
    ELSE IF s.mask_start > Layouts[lay].stop THEN Ret(s, FALSE)
    ELSE IF elements_intersect(s.pols[p], MaskOf(s))
    THEN IF s.pols[p].stop - s.mask_start > 1
         THEN Ret(Raise(s, "overlapping mask"), FALSE)
         ELSE IF check_interaction(TheMask, Pol(p).name)
         THEN Ret(shift_mask(s), FALSE)
         ELSE Ret(move_back(s, p), TRUE)
    ELSE Ret(s, FALSE)

_resolve_collisions(s, p) ==
    LET index == IndexOf(s.polymerases, p)
    IN IF index + 1 > Len(s.polymerases) THEN Ret(s, FALSE)
       ELSE LET ahead == s.pols[s.polymerases[index + 1]]
            IN IF elements_intersect(s.pols[p], ahead)
               THEN IF s.pols[p].stop - ahead.start > 1
                    THEN Ret(Raise(s, "overlapping polymerase"), FALSE)
                    ELSE Ret(move_back(s, p), TRUE)
               ELSE Ret(s, FALSE)

-----------------------------------------------------------------------------
(* Movement                                                                 *)

\* Lines 261-268: temporarily uncover what the polymerase is on.
RECURSIVE UncoverScan(_, _, _)
UncoverScan(s, p, save_index) ==
    IF Elements[save_index].start <= s.pols[p].stop
    THEN LET s1 == IF elements_intersect(s.pols[p], Elements[save_index])
                   THEN uncover(save_state(s, save_index), save_index)
                   ELSE s
         IN IF save_index + 1 > NE THEN s1
            ELSE UncoverScan(s1, p, save_index + 1)
    ELSE s

\* Lines 286-288: the first element still under the polymerase becomes its
\* scan bound.
MarkLeftMost(s, p, old_index, flag) ==
    IF flag THEN [s EXCEPT !.pols[p].left_most_element = old_index] ELSE s

\* Lines 289-290: an element under the polymerase is covered again and, if
\* it is a terminator, rolled for termination.
CoverOne(s, p, old_index, hit, random_num) ==
    IF hit THEN _resolve_termination(cover(s, old_index), p, old_index,
                                     random_num)
    ELSE s

\* Lines 291-292: check_state / save_state of the visited element.
Edge(s, old_index) ==
    IF s.raised # "" THEN s
    ELSE save_state(check_state(s, old_index), old_index)

\* Lines 282-295: re-cover, roll terminations, emit the edge notifications.
RECURSIVE CoverScan(_, _, _, _, _)
RECURSIVE CoverAt(_, _, _, _, _, _)
RECURSIVE CoverNext(_, _, _, _, _)
CoverScan(s, p, old_index, reset_index, rolls) ==
    IF s.raised # "" THEN s
    ELSE IF Elements[old_index].start <= s.pols[p].stop
    THEN CoverAt(s, p, old_index, reset_index, rolls,
                 elements_intersect(s.pols[p], Elements[old_index]))
    ELSE s

CoverAt(s, p, old_index, reset_index, rolls, hit) ==
    CoverNext(Edge(CoverOne(MarkLeftMost(s, p, old_index, hit /\ reset_index),
                            p, old_index, hit, rolls[old_index]),
                   old_index),
              p, old_index, reset_index /\ ~hit, rolls)

\* Lines 293-295: the next element, if there is one.
CoverNext(s, p, old_index, reset_index, rolls) ==
    IF old_index + 1 > NE THEN s
    ELSE CoverScan(s, p, old_index + 1, reset_index, rolls)

\* Lines 278-279: "moved" is fired when neither collision was flagged.
MayFireMoved(pol_collision, mask_collision) ==
    ~pol_collision /\ ~mask_collision

\* Variant of line 297 that lets a polymerase stand one unit past the end.
RanOff_one_late(stop, polymer_stop) == stop > polymer_stop + 1

\* Line 297: the polymerase ran off the end of the polymer.
RanOff(stop, polymer_stop) == stop > polymer_stop

\* Lines 276-279: mc is what _resolve_mask_collisions returned.
FireMoved(pol_collision, mc, p) ==
    IF mc.s.raised # "" THEN mc.s
    ELSE IF MayFireMoved(pol_collision, mc.ret)
    THEN [move_signal_fire(mc.s, p) EXCEPT !.moved = TRUE]
    ELSE mc.s

\* Lines 274-279: pc is what _resolve_collisions returned.
Collide(pc, p) ==
    FireMoved(pc.ret, _resolve_mask_collisions(pc.s, p), p)

\* Lines 282-295, from the polymerase's scan bound.
Rescan(s, p, rolls) ==
    IF s.raised # "" THEN s
    ELSE CoverScan(s, p, s.pols[p].left_most_element, TRUE, rolls)

\* Lines 297-298.
RunOff(s, p) ==
    IF s.raised # "" THEN s
    ELSE IF RanOff(s.pols[p].stop, Layouts[lay].stop)
    THEN terminate(s, p, Layouts[lay].stop, "")
    ELSE s

_move_polymerase(s, p, rolls) ==
    IF ~Tracked(s, p) THEN Raise(s, "unbound polymerase")
    ELSE RunOff(Rescan(Collide(_resolve_collisions(
                    move(UncoverScan(s, p, s.pols[p].left_most_element), p),
                    p), p), p, rolls), p)

\* choice: the polymerase weighted_choice returned (any of positive weight).
execute(s, choice, rolls) ==
    IF s.prop_sum = 0 THEN Raise(s, "zero propensity")
    ELSE IF Len(s.prop_list) = 0 THEN Raise(s, "no active polymerases")
    ELSE _move_polymerase(s, choice, rolls)

-----------------------------------------------------------------------------
(* The driver's calls                                                       *)

ShiftMask ==
    /\ ~Halted
    /\ Kind = "transcript" => upstream = "transcribing"
    /\ Commit(shift_mask(Engine), "shift_mask", 0, "")
    /\ UNCHANGED << spent, upstream >>

\* The driver hands each polymerase object to the engine at most once; of
\* two unused objects of the same template it takes the first.
Fresh(p) ==
    /\ p \in PolIds \ spent
    /\ \A q \in PolIds \ spent : q < p => Pol(q) # Pol(p)

BindPolymerase ==
    /\ ~Halted
    /\ \E p \in PolIds, promoter \in PromoterNames :
         /\ Fresh(p)
         /\ LET element_choices ==
                  {i \in 1..NE : Elements[i].name = promoter /\ ~covered[i]}
            IN \E e \in (IF element_choices = {} THEN {0} ELSE element_choices) :
                 LET s == IF Kind = "genome"
                          THEN Genome_bind_polymerase(Engine, p, promoter, e)
                          ELSE bind_polymerase(Engine, p, promoter, e)
                 IN /\ Commit(s, "bind_polymerase", p, promoter)
                    /\ spent' = IF Tracked(s, p) THEN spent \cup {p} ELSE spent
    /\ UNCHANGED upstream

Rolls == [{i \in 1..NE : Elements[i].type = "terminator"} -> Draws]

Execute ==
    /\ ~Halted
    /\ LET choices == {k \in 1..Len(polymerases) : prop_list[k] > 0}
       IN \E k \in (IF prop_sum = 0 \/ choices = {} THEN {0} ELSE choices),
             rolls \in Rolls :
            LET p == IF k = 0 THEN 0 ELSE polymerases[k]
            IN /\ Commit(execute(Engine, p, rolls), "execute", p, "")
               /\ UNCHANGED << spent, upstream >>

\* A Transcript's release, the handler of its transcribing polymerase's
\* release notification: called once, with the release coordinate.
Release ==
    /\ ~Halted
    /\ Kind = "transcript" /\ upstream = "transcribing"
    /\ \E stop \in {c \in Layouts[lay].release : c >= mask_start} :
         Commit(release(Engine, stop), "release", 0, "")
    /\ upstream' = "released"
    /\ UNCHANGED spent

Next == BindPolymerase \/ Execute \/ ShiftMask \/ Release

Spec == Init /\ [][Next]_vars

-----------------------------------------------------------------------------
(* Properties                                                               *)

EventsOf(sig) == {k \in 1..Len(events) : events[k].sig = sig}
EventsOfNext(sig) == {k \in 1..Len(events') : events'[k].sig = sig}
Handlers == {"propensity", "release", "moved", "covered", "uncovered"}
IsTracked(p) == \E k \in 1..Len(polymerases) : polymerases[k] = p
FreeFlags(n) == {i \in 1..NE : Elements[i].name = n /\ ~covered[i]}
\* A step that is a successful bind_polymerase call.
BoundNow == last'.op = "bind_polymerase" /\ last'.raised = ""

\* C1 (as stated): in every state, also while a notification handler runs
\* inside bind_polymerase or terminate, sum(prop_list) = prop_sum.
C1_SumEqualsTotalEverywhere ==
    /\ Sum(prop_list) = prop_sum
    /\ \A k \in 1..Len(events) :
         events[k].sig \in Handlers => events[k].list_sum = events[k].prop_sum

\* C1 (amended): sum(prop_list) = prop_sum at rest and while a handler runs
\* inside bind_polymerase or a move; while the release and propensity-changed
\* handlers run inside terminate, prop_sum is already decremented and
\* prop_list still holds the weight of the polymerase being terminated.
C1_SumEqualsTotalAtRest ==
    /\ Sum(prop_list) = prop_sum
    /\ \A k \in 1..Len(events) :
         LET e == events[k]
         IN e.sig \in Handlers =>
              IF last.op = "execute" /\ e.sig \in {"release", "propensity"}
              THEN e.list_sum = e.prop_sum + Pol(e.pol).speed
              ELSE e.list_sum = e.prop_sum

\* C1 witness: a termination has run its handlers and another polymerase
\* is still tracked.
C1_Witness ==
    /\ EventsOf("release") # {}
    /\ \E k \in EventsOf("propensity") : events[k].list_sum # events[k].prop_sum
    /\ polymerases # << >>

\* C2: the free-element count of every element name is >= 0.
C2_FreeCountsNonNegative == \A n \in ElementNames : uncovered[n] >= 0

\* C3: at rest, count_uncovered(name) is the number of elements of that
\* name whose covered flag is false.
C3_CountMatchesFlags ==
    ~Halted => \A n \in ElementNames : uncovered[n] = Cardinality(FreeFlags(n))

\* C4: at rest, no two tracked polymerases overlap by more than one
\* coordinate unit (judged as _resolve_collisions does: stop - start > 1).
C4_NoOverlapBeyondOne ==
    ~Halted =>
      \A k, m \in 1..Len(polymerases) :
        k < m => LET a == pols[polymerases[k]]
                     b == pols[polymerases[m]]
                 IN ~(elements_intersect(a, b) /\ a.stop - b.start > 1)

\* C5: at rest, the polymerase sequence is strictly ascending by start and
\* prop_list is index-aligned with it.
C5_StrictlyAscending ==
    ~Halted =>
      /\ Len(prop_list) = Len(polymerases)
      /\ \A k \in 1..Len(polymerases) : prop_list[k] = Pol(polymerases[k]).speed
      /\ \A k \in 1..Len(polymerases) - 1 :
           pols[polymerases[k]].start < pols[polymerases[k + 1]].start

\* C6: bind_polymerase fails when every element of that name is covered and
\* when the new stop would be >= mask.start; so a call that succeeds found a
\* free element and leaves the polymerase's stop below the mask start.
C6_BindRefusedAtMask ==
    [][BoundNow =>
         /\ FreeFlags(last'.name) # {}
         /\ pols'[last'.pol].stop < mask_start]_vars

C8_Start ==
    (spent = {} /\ mask_start = TheMask.start) =>
        /\ \A i \in 1..NE : covered[i]
        /\ \A n \in ElementNames : uncovered[n] = 0
        /\ last.op = "bind_polymerase" => last.raised # ""

C8_AfterTenShifts ==
    (spent = {} /\ mask_start = TheMask.start + 10) =>
        ~covered[1] /\ uncovered["promoter1"] = 1

C8_BindStep(footprint) ==
       (/\ spent = {}
        /\ mask_start = TheMask.start + 10
        /\ last'.op = "bind_polymerase"
        /\ last'.name = "promoter1"
        /\ Pol(last'.pol) = Polymerase("ecolipol", footprint, 30))
       => /\ last'.raised = ""
          /\ pols'[last'.pol].start = 5
          /\ pols'[last'.pol].stop = 15
          /\ uncovered'["promoter1"] = 0
          /\ prop_sum' = 30
          /\ Cardinality(EventsOfNext("propensity")) = 1

TerminatedAtNext(i) ==
    \E k \in EventsOfNext("call:terminate") : events'[k].gene = Elements[i].gene

\* C9: once a terminator's readthrough flag is set it is never reset, and no
\* later move of any polymerase terminates at that terminator.
C9_ReadthroughIsPermanent ==
    [][\A i \in 1..NE :
         readthrough[i] => readthrough'[i] /\ ~TerminatedAtNext(i)]_vars

\* C9 witness: a polymerase of a species with efficiency 1.0 has just moved
\* onto a terminator whose readthrough flag is set, and is still tracked.
C9_Witness ==
    \E i \in 1..NE :
      /\ readthrough[i]
      /\ last.op = "execute" /\ last.raised = "" /\ last.moved
      /\ IsTracked(last.pol)
      /\ Pol(last.pol).name \in Elements[i].interactions
      /\ Elements[i].efficiency[Pol(last.pol).name] = 100
      /\ pols[last.pol].stop = Elements[i].start

\* The polymerase ahead of p in the sequence (0: none).
Ahead(p) ==
    LET k == IndexOf(polymerases, p)
    IN IF k + 1 > Len(polymerases) THEN 0 ELSE polymerases[k + 1]

\* C10: when the selected polymerase is exactly adjacent to the one ahead
\* (stop = its start - 1), execute reverts the move: both keep their
\* positions, no "moved" notification, no error; a move that would overlap
\* the one ahead by more than one unit raises the fatal error.
C10_AdjacentMoveReverts ==
    [][(last'.op = "execute" /\ last'.pol # 0 /\ IsTracked(last'.pol)
        /\ Ahead(last'.pol) # 0)
       => LET p == last'.pol
              q == Ahead(p)
          IN /\ pols[p].stop = pols[q].start - 1 =>
                   /\ last'.raised = ""
                   /\ pols'[p].start = pols[p].start
                   /\ pols'[p].stop = pols[p].stop
                   /\ pols'[q].start = pols[q].start
                   /\ pols'[q].stop = pols[q].stop
                   /\ EventsOfNext("moved") = {}
             /\ (/\ elements_intersect(move(Engine, p).pols[p], pols[q])
                 /\ pols[p].stop + 1 - pols[q].start > 1)
                  => last'.raised = "overlapping polymerase"]_vars

\* The polymerases tracked after the step.
TrackedNext(p) == \E k \in 1..Len(polymerases') : polymerases'[k] = p

\* C11: a polymerase whose stop exceeds the polymer's stop after its move is
\* terminated within that execute, with release coordinate = polymer stop,
\* terminator or not; so after every call that did not end in a fatal error
\* every tracked polymerase has stop <= polymer stop.
C11_RunOffTerminates ==
    [][/\ (last'.op = "execute" /\ last'.raised = "" /\ last'.pol # 0
            /\ pols'[last'.pol].stop > Layouts[lay].stop)
           => /\ ~TrackedNext(last'.pol)
              /\ \E k \in EventsOfNext("release") :
                    /\ events'[k].pol = last'.pol
                    /\ events'[k].arg = Layouts[lay].stop
       /\ last'.raised \in {"", "zero propensity"}
           => \A q \in PolIds :
                TrackedNext(q) => pols'[q].stop <= Layouts[lay].stop]_vars

\* C11 witness: on the polymer without terminator a polymerase has run off
\* the end and was released at the polymer's stop.
C11_Witness ==
    /\ \A i \in 1..NE : Elements[i].type # "terminator"
    /\ last.op = "execute" /\ last.raised = ""
    /\ pols[last.pol].stop > Layouts[lay].stop
    /\ ~IsTracked(last.pol)
    /\ \E k \in EventsOf("release") : events[k].arg = Layouts[lay].stop

\* The notifications a terminate call that began at event k has fired, in the
\* order of section 4.6, for the polymerase p.
TerminationFired(k, p) ==
    /\ k + 3 <= Len(events')
    /\ events'[k + 1].sig = "release" /\ events'[k + 1].pol = p
    /\ events'[k + 1].arg = events'[k].arg
    /\ events'[k + 1].prop_sum = events'[k].prop_sum
    /\ events'[k + 2].sig = "terminated" /\ events'[k + 2].pol = p
    /\ Kind = "transcript" => events'[k + 2].gene = events'[k].gene
    /\ events'[k + 3].sig = "propensity"
    /\ \A sig \in {"release", "terminated"} :
         Cardinality({j \in EventsOfNext(sig) : events'[j].pol = p}) = 1

\* C12: every termination decrements the running total by the polymerase's
\* weight, then fires release (with the release coordinate), then the
\* termination notification, then propensity-changed, then removes the
\* polymerase and its weight from the same index; every engine kind fires
\* the termination notification, each notification once per polymerase.
C12_TerminationSequence ==
    [][\A k \in EventsOfNext("call:terminate") :
            /\ events'[k].prop_sum = prop_sum - Pol(events'[k].pol).speed
            /\ TerminationFired(k, events'[k].pol)
            /\ polymerases' =
                   Delete(polymerases, IndexOf(polymerases, events'[k].pol))
            /\ prop_list' =
                   Delete(prop_list, IndexOf(polymerases, events'[k].pol))]_vars

\* The engine state a call can change.
EngineVars == << covered, old_covered, readthrough, mask_start, uncovered,
                pols, polymerases, prop_list, prop_sum, transcripts >>

\* C13: execute raises exactly when prop_sum is zero, which is exactly when
\* no polymerase is tracked; the raising call changes no engine state and
\* fires no notification; a non-raising execute selects a tracked
\* polymerase.
C13_ExecuteRaisesIffZero ==
    [][last'.op = "execute" =>
         /\ (last'.raised # "") <=> (prop_sum = 0)
         /\ (prop_sum = 0) <=> (polymerases = << >>)
         /\ last'.raised # "" => (UNCHANGED EngineVars /\ events' = << >>)
         /\ last'.raised = "" => IsTracked(last'.pol)]_vars

\* C14: the mask start never decreases and never exceeds the mask stop; a
\* shift_mask call raises it by exactly one when start < stop and changes
\* nothing when the mask is exhausted; a move pushes it by at most one;
\* bind_polymerase and moves that do not meet the mask leave it unchanged.
C14_MaskStartMonotone ==
    [][/\ mask_start' >= mask_start
       /\ mask_start' <= TheMask.stop
       /\ last'.op = "shift_mask" =>
             IF mask_start < TheMask.stop
             THEN mask_start' = mask_start + 1
             ELSE UNCHANGED EngineVars /\ events' = << >>
       /\ last'.op = "bind_polymerase" => mask_start' = mask_start
       /\ (last'.op = "execute" /\ last'.pol # 0) =>
             /\ mask_start' \in {mask_start, mask_start + 1}
             /\ ~elements_intersect(move(Engine, last'.pol).pols[last'.pol],
                                    MaskOf(Engine))
                  => mask_start' = mask_start]_vars

\* C14 witness: shift_mask was called on a mask that polymerases and the
\* driver had pushed to exhaustion, with a polymerase tracked.
C14_Witness ==
    /\ last.op = "shift_mask"
    /\ TheMask.start < TheMask.stop
    /\ mask_start = TheMask.stop
    /\ events = << >>
    /\ polymerases # << >>

\* Element i lies under the mask or under a tracked polymerase.
Occupied(i) ==
    \/ elements_intersect(Elements[i], MaskOf(Engine))
    \/ \E q \in PolIds : IsTracked(q) /\ elements_intersect(Elements[i], pols[q])

\* C15: at rest, every element that intersects a tracked polymerase or the
\* mask is flagged covered (a promoter reported free is never occupied).
C15_OccupiedIsCovered ==
    ~Halted => \A i \in 1..NE : Occupied(i) => covered[i]

\* The covered elements of the Transcript tr lie under its mask (it carries
\* no ribosome).
TranscriptCoveredUnderMask(tr) ==
    LET es == TranscriptElements(Template, tr.origin, Layouts[lay].stop)
    IN \A i \in 1..Len(es) :
          tr.covered[i] =>
             elements_intersect(es[i], [start |-> tr.mask_start,
                                        stop |-> tr.mask_stop])

\* C16: at rest, in every engine kind, every element flagged covered lies
\* under the mask or under a tracked polymerase: elements under a terminated
\* polymerase become uncovered, and so do the elements that a release of a
\* Transcript leaves outside its mask.
C16_CoveredIsOccupied ==
    ~Halted =>
       /\ \A i \in 1..NE : covered[i] => Occupied(i)
       /\ \A p \in PolIds :
             (Kind = "genome" /\ transcripts[p].built)
                => TranscriptCoveredUnderMask(transcripts[p])

\* The call just made did not end in a fatal error.
ReturnedNext ==
    ~(last'.op = "execute" /\ last'.raised \notin {"", "zero propensity"})

\* C19: on a Genome, the Transcript built at a polymerase's binding has its
\* mask start raised by one for each successful move of that polymerase and
\* by nothing for a reverted move; while the polymerase is tracked the
\* transcript's mask start is min(polymerase start, mask stop); release is
\* invoked once, when the polymerase is released.
C19_TranscriptFollowsPolymerase ==
    [][(Kind = "genome" /\ ReturnedNext) =>
         \A p \in PolIds :
            transcripts'[p].built =>
              /\ (transcripts[p].built /\ TrackedNext(p)) =>
                    transcripts'[p].mask_start =
                       transcripts[p].mask_start
                         + (pols'[p].start - pols[p].start)
              /\ TrackedNext(p) =>
                    /\ transcripts'[p].mask_start =
                          Min({pols'[p].start, transcripts'[p].mask_stop})
                    /\ transcripts'[p].released = 0
              /\ ~TrackedNext(p) => transcripts'[p].released = 1]_vars

\* The element at the mask's leading edge in engine s (0: none), as
\* shift_mask finds it.
EdgeElement(s) ==
    LET hits == {i \in 1..NE : elements_intersect(MaskOf(s), Elements[i])}
    IN IF hits = {} THEN 0 ELSE Min(hits)

\* What C17 says of one shift_mask call made on engine s.
EdgeTriggered(s) ==
    LET r == shift_mask(s)
        index == EdgeElement(s)
        fired == SubSeq(r.events, Len(s.events) + 1, Len(r.events))
    IN IF s.mask_start >= TheMask.stop \/ index = 0
       THEN r.uncovered = s.uncovered /\ fired = << >>
       ELSE IF elements_intersect(MaskOf(r), Elements[index])
       THEN r.uncovered = s.uncovered /\ fired = << >>
       ELSE /\ r.uncovered =
                 [s.uncovered EXCEPT ![Elements[index].name] = @ + 1]
            /\ Len(fired) = 1
            /\ fired[1].sig = "uncovered" /\ fired[1].arg = index

\* The engine on which _resolve_mask_collisions runs in a move of p.
AtMaskCheck(p) ==
    _resolve_collisions(move(UncoverScan(Engine, p, pols[p].left_most_element),
                             p), p).s

\* _resolve_mask_collisions(s, p) calls shift_mask (line 339).
PushesMask(s, p) ==
    /\ s.raised = ""
    /\ ~(s.mask_start > Layouts[lay].stop)
    /\ elements_intersect(s.pols[p], MaskOf(s))
    /\ ~(s.pols[p].stop - s.mask_start > 1)
    /\ check_interaction(TheMask, Pol(p).name)

\* C17: shift_mask is edge-triggered, called by the driver at rest or from
\* inside a move: a free count changes (+1, one "uncovered") only when the
\* element at the mask's leading edge is no longer under the mask after the
\* shift; otherwise nothing is fired and no free count changes.
C17_ShiftMaskEdgeTriggered ==
    [][/\ last'.op = "shift_mask" => EdgeTriggered(Engine)
       /\ (last'.op = "execute" /\ last'.pol # 0 /\ IsTracked(last'.pol)
            /\ PushesMask(AtMaskCheck(last'.pol), last'.pol))
           => EdgeTriggered(AtMaskCheck(last'.pol))]_vars

\* The move of p met no polymerase ahead and brings its footprint onto a
\* mask that is still on the polymer (lines 329-332).
MeetsMask(p) ==
    /\ ~_resolve_collisions(
            move(UncoverScan(Engine, p, pols[p].left_most_element), p), p).ret
    /\ AtMaskCheck(p).raised = ""
    /\ ~(mask_start > Layouts[lay].stop)
    /\ elements_intersect(AtMaskCheck(p).pols[p], MaskOf(Engine))

\* The effects C18 describes for an execute step that moved p; pushed is the
\* mask start expected after a pass-through polymerase met the mask.
MaskCollisionEffects(p, pushed) ==
    IF pols[p].stop + 1 - mask_start > 1
    THEN last'.raised = "overlapping mask"
    ELSE IF check_interaction(TheMask, Pol(p).name)
    THEN /\ last'.raised = ""
         /\ mask_start' = pushed
         /\ pols'[p].start = pols[p].start + 1
         /\ pols'[p].stop = pols[p].stop + 1
         /\ Cardinality(EventsOfNext("moved")) = 1
    ELSE /\ last'.raised = ""
         /\ mask_start' = mask_start
         /\ pols'[p].start = pols[p].start
         /\ pols'[p].stop = pols[p].stop
         /\ EventsOfNext("moved") = {}

TerminatorsNamed(n, pol) ==
    {i \in 1..NE : /\ Elements[i].type = "terminator"
                   /\ Elements[i].name = n
                   /\ elements_intersect(pol, Elements[i])}

\* What C20 says of every successful roll of the step; flag is the
\* terminator's covered flag expected when the move has completed.
SuccessfulRollEffects(flag) ==
    \A k \in EventsOfNext("roll") :
     \A i \in TerminatorsNamed(events'[k].gene, pols'[events'[k].pol]) :
       RollTerminates(events'[k].arg,
                      Elements[i].efficiency[Pol(events'[k].pol).name])
       => /\ covered'[i] = flag
          /\ ~TrackedNext(events'[k].pol)
          /\ \E c \in EventsOfNext("call:terminate") :
                /\ c > k
                /\ events'[c].pol = events'[k].pol
                /\ events'[c].arg = Elements[i].stop
                /\ events'[c].gene = Elements[i].gene
          /\ \E c \in EventsOfNext("release") :
                /\ c > k
                /\ events'[c].pol = events'[k].pol
                /\ events'[c].arg = Elements[i].stop

\* C20 (as stated): when a termination roll succeeds (species allowed,
\* readthrough false, draw <= efficiency) the terminator is flagged covered
\* when the move completes, and the polymerase is terminated with release
\* coordinate = the terminator's stop and with the terminator's gene label.
C20_TerminatorLeftCovered ==
    [][last'.op = "execute" => SuccessfulRollEffects(TRUE)]_vars

\* C20 (amended): the same, except that the terminator is flagged uncovered
\* when the move completes.
C20_TerminatorLeftUncovered ==
    [][last'.op = "execute" => SuccessfulRollEffects(FALSE)]_vars

\* C20 witness: a roll succeeded and the polymerase was terminated at the
\* terminator while another polymerase stays tracked.
C20_Witness ==
    /\ last.op = "execute" /\ last.raised = ""
    /\ \E k \in EventsOf("roll") :
        \E i \in TerminatorsNamed(events[k].gene, pols[events[k].pol]) :
          /\ RollTerminates(events[k].arg,
                            Elements[i].efficiency[Pol(events[k].pol).name])
          /\ events[k].pol = last.pol
          /\ pols[last.pol].stop >= Elements[i].start
    /\ ~IsTracked(last.pol)
    /\ polymerases # << >>

\* C21: a non-raising execute changes the position of the selected
\* polymerase only, by +1 on start and stop or by 0 (reverted move); every
\* other polymerase keeps its position, and no tracked polymerase's start
\* decreases in any call.
C21_OneStepForward ==
    [][/\ (last'.op = "execute" /\ last'.raised = "") =>
            /\ \A q \in PolIds \ {last'.pol} : pols'[q] = pols[q]
            /\ pols'[last'.pol].start - pols[last'.pol].start \in {0, 1}
            /\ pols'[last'.pol].stop - pols[last'.pol].stop
                  = pols'[last'.pol].start - pols[last'.pol].start
       /\ \A q \in PolIds :
             (IsTracked(q) /\ TrackedNext(q)) => pols'[q].start >= pols[q].start]_vars

\* C22: from a construction with ascending, non-overlapping elements and a
\* mask inside the polymer's bounds, no execute made with non-zero
\* propensity raises: the overlap errors and the unbound-polymerase error
\* are unreachable, also once the mask is exhausted.
C22_ExecuteNeverFatal ==
    last.op = "execute" => last.raised \in {"", "zero propensity"}

\* C23: a bind_polymerase call that raises, on a Polymer or on a Genome
\* (also when no gene of the template lies behind the binding coordinate),
\* leaves polymerase sequence, weight sequence, running total, free counts
\* and covered flags unchanged and fires neither propensity-changed nor
\* transcript-created.
C23_FailedBindChangesNothing ==
    [][(last'.op = "bind_polymerase" /\ last'.raised # "") =>
          /\ polymerases' = polymerases
          /\ prop_list' = prop_list
          /\ prop_sum' = prop_sum
          /\ uncovered' = uncovered
          /\ covered' = covered
          /\ EventsOfNext("propensity") = {}
          /\ EventsOfNext("transcript") = {}]_vars

\* The elements of the Transcript tr.
ElementsOf(tr) == TranscriptElements(Template, tr.origin, Layouts[lay].stop)

\* A ribosome-binding site of the Transcript tr is free.
FreeSite(tr) ==
    \E i \in 1..Len(tr.covered) :
       ElementsOf(tr)[i].type = "promoter" /\ ~tr.covered[i]

\* C24: the Transcript a Genome builds at a binding has its mask on
\* [binding coordinate, genome stop], every element covered and every free
\* count 0; none of its ribosome-binding sites is free before the
\* transcribing polymerase has made a successful move.
C24_TranscriptStartsMasked ==
    [][Kind = "genome" =>
         \A p \in PolIds :
            /\ (transcripts'[p].built /\ ~transcripts[p].built) =>
                  /\ last'.op = "bind_polymerase" /\ last'.pol = p
                  /\ Len(transcripts'[p].covered) > 0
                  /\ transcripts'[p].mask_start = pols'[p].start
                  /\ transcripts'[p].mask_start = Elements[pols'[p].left_most_element].start
                  /\ transcripts'[p].mask_stop = Layouts[lay].stop
                  /\ \A i \in 1..Len(transcripts'[p].covered) :
                        transcripts'[p].covered[i]
                  /\ \A n \in DOMAIN transcripts'[p].uncovered :
                        transcripts'[p].uncovered[n] = 0
            /\ (transcripts'[p].built /\ FreeSite(transcripts'[p])) =>
                  /\ transcripts[p].built
                  /\ pols'[p].start > transcripts'[p].origin]_vars

\* C24 witness: on a Genome a polymerase has just been bound and its
\* Transcript built, while the Transcript of an earlier polymerase, which
\* has moved on, has a free ribosome-binding site.
C24_Witness ==
    /\ Kind = "genome"
    /\ last.op = "bind_polymerase" /\ last.raised = ""
    /\ transcripts[last.pol].built
    /\ Len(transcripts[last.pol].covered) >= 2
    /\ ~FreeSite(transcripts[last.pol])
    /\ \E q \in PolIds \ {last.pol} :
          /\ transcripts[q].built /\ FreeSite(transcripts[q])
          /\ pols[q].start > transcripts[q].origin

\* The engine of the test fixture, driven the same way.
InitTest == InitWith(TestLayoutIndex)

\* The test's engine is a plain Polymer, which has no release.
NextTest == BindPolymerase \/ Execute \/ ShiftMask

SpecTest == InitTest /\ [][NextTest]_vars

\* bind_polymerase called with a polymerase whose species the mask lets
\* pass.
BindPassThrough ==
    /\ ~Halted
    /\ \E p \in PolIds, promoter \in PromoterNames :
         /\ Fresh(p)
         /\ check_interaction(TheMask, Pol(p).name)
         /\ LET element_choices ==
                  {i \in 1..NE : Elements[i].name = promoter /\ ~covered[i]}
            IN \E e \in (IF element_choices = {} THEN {0} ELSE element_choices) :
                 LET s == bind_polymerase(Engine, p, promoter, e)
                 IN /\ Commit(s, "bind_polymerase", p, promoter)
                    /\ spent' = IF Tracked(s, p) THEN spent \cup {p} ELSE spent
    /\ UNCHANGED upstream

\* execute while prop_sum is not zero, with weighted_choice returning the
\* tracked polymerase p.
ExecutePol(p) ==
    /\ ~Halted
    /\ prop_sum # 0
    /\ \E k \in 1..Len(polymerases) : polymerases[k] = p /\ prop_list[k] > 0
    /\ \E rolls \in Rolls : Commit(execute(Engine, p, rolls), "execute", p, "")
    /\ UNCHANGED << spent, upstream >>

\* The Polymer with free promoters and a mask that lets a species pass
\* (ShortMaskLayout).
PassThroughLayouts == {3}

InitLive == InitWith(PassThroughLayouts)

NextLive == BindPassThrough \/ (\E p \in PolIds : ExecutePol(p))

\* weighted_choice can return p: the engine runs, the total is not zero and
\* p is tracked with a positive weight (lines 136-140, 228-240).
Selectable(p) ==
    /\ ~Halted
    /\ prop_sum # 0
    /\ \E k \in 1..Len(polymerases) : polymerases[k] = p /\ prop_list[k] > 0

\* The last call was an execute of p whose move was reverted: another
\* execute of p leaves the engine as it is.
Stalled(p) ==
    last.op = "execute" /\ last.pol = p /\ last.raised = "" /\ ~last.moved

\* The outcomes of a call of execute, as the driver sees them.
Outcomes ==
    [op : {"execute"}, pol : PolIds, name : {""}, moved : BOOLEAN,
     raised : {"", "overlapping mask", "overlapping polymerase",
               "unbound polymerase", "ValueError"}]

\* Where an execute can leave the polymerase at pol: moved by one or not,
\* with any scan bound.
Positions(pol) ==
    [start : {pol.start, pol.start + 1}, stop : {pol.stop, pol.stop + 1},
     left_most_element : 1..NE]

\* An execute in which weighted_choice returns p, as the driver sees it:
\* the call's outcome and the polymerase's position.
Selected(p) ==
    /\ Selectable(p)
    /\ ~Stalled(p)
    /\ last' \in {o \in Outcomes : o.pol = p}
    /\ pols' \in {[pols EXCEPT ![p] = pos] : pos \in Positions(pols[p])}

\* weighted_choice is fair: a polymerase whose execute would change the
\* engine, and stays so, is selected.
FairSelection == \A p \in PolIds : WF_<< last, pols >>(Selected(p))

SpecLive == InitLive /\ [][NextLive]_vars /\ FairSelection

\* An execute of a stalled polymerase changes nothing.
StalledStutters ==
    [][\A p \in PolIds :
          ~(Stalled(p) /\ Selectable(p)
              /\ last'.op = "execute" /\ last'.pol = p)]_vars

\* C25: on a Polymer whose mask lets every bound species pass, with execute
\* called while the propensity is not zero and fair selection, every tracked
\* polymerase is eventually terminated and the running total returns to 0.
C25_EveryPolymeraseTerminates ==
    /\ \A p \in PolIds : IsTracked(p) ~> ~IsTracked(p)
    /\ (prop_sum # 0) ~> (prop_sum = 0)
====
